---- MODULE Spec2Model ----
(***************************************************************************)
(* Model of caco-alch: the potion aggregator (Potion.hpp), the ingredient  *)
(* registry (IngredientCache.hpp), the render engine (Format.hpp) and the  *)
(* program entry (main.cpp, handle_arguments.hpp, UserAssist.hpp).         *)
(*                                                                         *)
(* Strings are sequences of character codes (ASCII), so that comparison,   *)
(* lower-casing and substring search are computed, not assumed.            *)
(* Magnitudes (double in the source) and durations (unsigned) are naturals.*)
(***************************************************************************)
EXTENDS Integers, Sequences, FiniteSets, TLC

VARIABLES
    ingr,       \* the ingredient list handed to the operation (std::vector<Ingredient>)
    potion,     \* outcome of the last Potion construction
    registry,   \* RegistryType::_ingr and the duplicate count returned by sort
    query,      \* the last search operation on the registry and its result
    fmt,        \* the OutputFormat flags of the render engine
    render,     \* the last call into the render engine and its result
    run         \* one run of the program: its arguments, position and exit code

vars == <<ingr, potion, registry, query, fmt, render, run>>

----------------------------------------------------------------------------
(* Bounds *)

\* longest ingredient list handed to the Potion constructor
MaxIngr == 5

\* largest magnitude / duration value of the effects that are drawn
MaxVal == 2

\* longest ingredient list handed to the registry constructor
MaxList == 3

----------------------------------------------------------------------------
(* Strings *)

\* std::string::npos (size_t(-1)); the largest value the checker's integers hold
npos == 2147483647

\* str::tolower: every upper-case ASCII letter is replaced by its lower-case letter
tolower(s) ==
    [i \in 1..Len(s) |-> IF s[i] \in 65..90 THEN s[i] + 32 ELSE s[i]]

\* what std::string::substr throws for a position behind the end
out_of_range == [thrown |-> "std::out_of_range"]

\* std::string::substr(pos, n): at most n characters from the 0-based position
\* pos; pos > size() throws std::out_of_range
substr(s, pos, n) ==
    IF pos > Len(s) THEN out_of_range
    ELSE LET last == IF pos + n > Len(s) THEN Len(s) ELSE pos + n
         IN  [i \in 1..(last - pos) |-> s[pos + i]]

\* std::string::find(sub): 0-based position of the first occurrence, or npos
StrFind(s, sub) ==
    LET hits == {p \in 0..(Len(s) - Len(sub)) : substr(s, p, Len(sub)) = sub}
    IN  IF hits = {} THEN npos
        ELSE CHOOSE p \in hits : \A q \in hits : p <= q

\* std::string operator< : lexicographic comparison of the character codes
RECURSIVE StrLess(_, _)
StrLess(a, b) ==
    IF b = <<>> THEN FALSE
    ELSE IF a = <<>> THEN TRUE
    ELSE IF a[1] < b[1] THEN TRUE
    ELSE IF b[1] < a[1] THEN FALSE
    ELSE StrLess(Tail(a), Tail(b))

----------------------------------------------------------------------------
(* Records *)

\* Effect{ name, magnitude, duration, keywords }
Effect(n, m, d, k) == [name |-> n, magnitude |-> m, duration |-> d, keywords |-> k]

\* Ingredient{ name, effects }: exactly 4 effect slots
NumSlots == 4

Ingredient(n, fx) == [name |-> n, effects |-> fx]

----------------------------------------------------------------------------
(* Potion.hpp *)

\* the lambda is_duplicate: position of the first entry of target with the
\* name of fx, or 0 for target.end()
is_duplicate(target, fx) ==
    LET hits == {i \in 1..Len(target) : target[i].name = fx.name}
    IN  IF hits = {} THEN 0
        ELSE CHOOSE i \in hits : \A j \in hits : i <= j

\* the entry pushed to the common list when an effect is seen the second
\* time: the stored first sighting if it is stronger, else the new sighting
PromoteNewOnly(dupl, it) == it

Promote(dupl, it) ==
    IF it.magnitude < dupl.magnitude THEN dupl ELSE it

\* an update that raises the magnitude and leaves the duration alone
RaiseMagnitudeOnly(current, it) ==
    [current EXCEPT !.magnitude = IF it.magnitude > @ THEN it.magnitude ELSE @]

\* the update of an entry that is already in the common list
Raise(current, it) ==
    [current EXCEPT
        !.magnitude = IF it.magnitude > @ THEN it.magnitude ELSE @,
        !.duration  = IF it.duration > @ THEN it.duration ELSE @]

\* a loop body that puts a promoted effect in front of the common list
VisitEffectPushFront(st, it) ==
    LET dupl == is_duplicate(st.tmp, it)
    IN  IF dupl # 0
        THEN LET current == is_duplicate(st.common, it)
             IN  IF current = 0
                 THEN [st EXCEPT !.common = <<Promote(st.tmp[dupl], it)>> \o @]
                 ELSE [st EXCEPT !.common[current] = Raise(@, it)]
        ELSE [st EXCEPT !.tmp = Append(@, it)]

\* body of the inner loop of get_common_effects for one effect `it`
VisitEffect(st, it) ==
    LET dupl == is_duplicate(st.tmp, it)
    IN  IF dupl # 0
        THEN LET current == is_duplicate(st.common, it)
             IN  IF current = 0
                 THEN [st EXCEPT !.common = Append(@, Promote(st.tmp[dupl], it))]
                 ELSE [st EXCEPT !.common[current] = Raise(@, it)]
        ELSE [st EXCEPT !.tmp = Append(@, it)]

\* the two loops of get_common_effects: ingredients in list order, slots in
\* slot order, starting at ingredient i, slot j
RECURSIVE WalkEffects(_, _, _, _)
WalkEffects(list, i, j, st) ==
    IF i > Len(list) THEN st
    ELSE IF j > Len(list[i].effects) THEN WalkEffects(list, i + 1, 1, st)
    ELSE WalkEffects(list, i, j + 1, VisitEffect(st, list[i].effects[j]))

\* the size check of get_common_effects: the message thrown, or "" for none
SizeErrorOffByOne(n) ==
    IF n >= 4 THEN "Too many ingredients! (Max 4)"
    ELSE IF n < 2 THEN "Not enough ingredients! (Min 2)"
    ELSE ""

SizeError(n) ==
    IF n > 4 THEN "Too many ingredients! (Max 4)"
    ELSE IF n < 2 THEN "Not enough ingredients! (Min 2)"
    ELSE ""

\* get_common_effects: either throws or returns the common list
get_common_effects(list) ==
    IF SizeError(Len(list)) # ""
    THEN [threw |-> TRUE, what |-> SizeError(Len(list)), value |-> <<>>]
    ELSE [threw |-> FALSE, what |-> "",
          value |-> WalkEffects(list, 1, 1, [common |-> <<>>, tmp |-> <<>>]).common]

\* GameSettings::calculate_magnitude, the injected scaling function:
\* a settings value gs stands for f(x) = x * gs.mult + gs.add
calculate_magnitude(gs, x) == x * gs.mult + gs.add

GameSettingsPool == {[mult |-> 1, add |-> 0], [mult |-> 2, add |-> 0], [mult |-> 0, add |-> 3]}

\* the names a caller gives a potion
PotionNames == {"Named"}

\* Potion::calculate_stats
calculate_stats_scaled_duration(base, gs) ==
    [i \in 1..Len(base) |->
        Effect(base[i].name, calculate_magnitude(gs, base[i].magnitude),
               calculate_magnitude(gs, base[i].duration), {})]

calculate_stats(base, gs) ==
    [i \in 1..Len(base) |->
        Effect(base[i].name, calculate_magnitude(gs, base[i].magnitude),
               base[i].duration, {})]

NoPotion == [state |-> "none", what |-> "", name |-> "", base_fx |-> <<>>, fx |-> <<>>, gs |-> [mult |-> 1, add |-> 0]]

\* Potion::Potion(const std::string& name, ingredients, GameSettings):
\* PotionBase(name, ingredients), _fx{ calculate_stats(_base_fx, gs) }
PotionNamed(name, list, gs) ==
    LET base == get_common_effects(list)
    IN  IF base.threw
        THEN [NoPotion EXCEPT !.state = "threw", !.what = base.what, !.gs = gs]
        ELSE [state |-> "built", what |-> "", name |-> name,
              base_fx |-> base.value, fx |-> calculate_stats(base.value, gs), gs |-> gs]

\* Potion::Potion(ingredients, GameSettings):
\* PotionBase("Potion", ingredients), _fx{ calculate_stats(_base_fx, gs) }
Potion(list, gs) == PotionNamed("Potion", list, gs)

----------------------------------------------------------------------------
(* IngredientCache.hpp *)

\* _internal::less<Ingredient>: ingredients are ordered by name, compared
\* case-sensitively and lexicographically
less(a, b) == StrLess(a.name, b.name)

\* std::set<Ingredient, less>::insert on the sorted sequence cont: when an
\* equivalent entry is stored the set is left alone and `inserted` is false,
\* else x is placed before the first entry that is greater
SetInsertUnordered(cont, x) ==
    IF \E i \in 1..Len(cont) : ~less(cont[i], x) /\ ~less(x, cont[i])
    THEN [inserted |-> FALSE, list |-> cont]
    ELSE [inserted |-> TRUE, list |-> Append(cont, x)]

SetInsertMulti(cont, x) ==
    LET n == Cardinality({i \in 1..Len(cont) : ~less(x, cont[i])})
    IN  [inserted |-> TRUE,
         list |-> SubSeq(cont, 1, n) \o <<x>> \o SubSeq(cont, n + 1, Len(cont))]

SetInsertOverwrite(cont, x) ==
    IF \E i \in 1..Len(cont) : ~less(cont[i], x) /\ ~less(x, cont[i])
    THEN [inserted |-> FALSE,
          list |-> [i \in 1..Len(cont) |->
                        IF ~less(cont[i], x) /\ ~less(x, cont[i]) THEN x ELSE cont[i]]]
    ELSE LET n == Cardinality({i \in 1..Len(cont) : less(cont[i], x)})
         IN  [inserted |-> TRUE,
              list |-> SubSeq(cont, 1, n) \o <<x>> \o SubSeq(cont, n + 1, Len(cont))]

SetInsert(cont, x) ==
    IF \E i \in 1..Len(cont) : ~less(cont[i], x) /\ ~less(x, cont[i])
    THEN [inserted |-> FALSE, list |-> cont]
    ELSE LET n == Cardinality({i \in 1..Len(cont) : less(cont[i], x)})
         IN  [inserted |-> TRUE,
              list |-> SubSeq(cont, 1, n) \o <<x>> \o SubSeq(cont, n + 1, Len(cont))]

\* a loop that counts the elements it stores
RECURSIVE SortLoopCountsStored(_, _, _)
SortLoopCountsStored(ingr_cont, k, acc) ==
    IF k > Len(ingr_cont) THEN acc
    ELSE LET r == SetInsert(acc.first, ingr_cont[k])
         IN  SortLoopCountsStored(ingr_cont, k + 1,
                [first |-> r.list,
                 second |-> IF r.inserted THEN acc.second + 1 ELSE acc.second])

\* the loop of IngredientCache::sort from element k of ingr_cont on
RECURSIVE SortLoop(_, _, _)
SortLoop(ingr_cont, k, acc) ==
    IF k > Len(ingr_cont) THEN acc
    ELSE LET r == SetInsert(acc.first, ingr_cont[k])
         IN  SortLoop(ingr_cont, k + 1,
                [first |-> r.list,
                 second |-> IF ~r.inserted THEN acc.second + 1 ELSE acc.second])

\* IngredientCache::sort: the pair <Container, number of duplicates>
sort(ingr_cont) == SortLoop(ingr_cont, 1, [first |-> <<>>, second |-> 0])

\* OutputFormat{ quiet, verbose, exact, all, fileExport, reverse, color, smart }
\* (indent, precision and the color table play no part in the modelled calls)
OutputFormat(quiet, verbose, exact, all, fileExport, reverse, color, smart) ==
    [flag_quiet |-> quiet, flag_verbose |-> verbose, flag_exact |-> exact,
     flag_all |-> all, flag_export |-> fileExport, flag_reverse |-> reverse,
     flag_color |-> color, flag_smart |-> smart]

\* match that takes the partial branch whatever the flag
matchAlwaysPartial(flag_exact, objName, searchName) ==
    objName = searchName \/ StrFind(objName, searchName) < Len(objName)

\* match that folds the case of both strings in the partial branch
matchCaseFolded(flag_exact, objName, searchName) ==
    IF flag_exact
    THEN objName = searchName
    ELSE \/ tolower(objName) = tolower(searchName)
         \/ StrFind(tolower(objName), tolower(searchName)) < Len(objName)

\* OutputFormat::match
match(flag_exact, objName, searchName) ==
    IF flag_exact
    THEN objName = searchName
    ELSE objName = searchName \/ StrFind(objName, searchName) < Len(objName)

\* the predicate `pred` of the searches: exact or partial matching
pred(flag_exact, objName, searchName) == match(flag_exact, objName, searchName)

\* the lambda of IngredientCache::get
GetMatches(i, name, only_effects, flag_exact) ==
    IF only_effects
    THEN \E j \in 1..Len(i.effects) : pred(flag_exact, tolower(i.effects[j].name), name)
    ELSE i.name = name

\* IngredientCache::get: std::find_if from position off; Len + 1 is end()
get(cont, name, off, only_effects, flag_exact) ==
    LET hits == {p \in off..Len(cont) : GetMatches(cont[p], name, only_effects, flag_exact)}
    IN  IF hits = {} THEN Len(cont) + 1
        ELSE CHOOSE p \in hits : \A q \in hits : p <= q

\* the condition of the three branches of RegistryType::find, for a name
\* that find has lower-cased
FindSelectsAnd(it, name, flag_exact, search) ==
    LET byName == pred(flag_exact, tolower(it.name), name)
        byEffect == \E j \in 1..Len(it.effects) :
                        pred(flag_exact, tolower(it.effects[j].name), name)
    IN  CASE search = "INGR"   -> byName
          [] search = "BOTH"   -> byName /\ byEffect
          [] search = "EFFECT" -> byEffect

FindSelects(it, name, flag_exact, search) ==
    LET byName == pred(flag_exact, tolower(it.name), name)
        byEffect == \E j \in 1..Len(it.effects) :
                        pred(flag_exact, tolower(it.effects[j].name), name)
    IN  CASE search = "INGR"   -> byName
          [] search = "BOTH"   -> byName \/ byEffect
          [] search = "EFFECT" -> byEffect

\* the loop of RegistryType::find from position k on: cont.insert(it) for
\* every selected entry
RECURSIVE FindLoop(_, _, _, _, _, _)
FindLoop(reg, k, name, flag_exact, search, cont) ==
    IF k > Len(reg) THEN cont
    ELSE FindLoop(reg, k + 1, name, flag_exact, search,
            IF FindSelects(reg[k], name, flag_exact, search)
            THEN SetInsert(cont, reg[k]).list
            ELSE cont)

\* RegistryType::find
find(reg, name, flag_exact, search) ==
    FindLoop(reg, 1, tolower(name), flag_exact, search, <<>>)

\* the containment test of find_best_fit: lc.find(name) < lc.size()
BestFitContainsPrefixOnly(lc, name) == StrFind(lc, name) = 0 /\ Len(lc) > 0

BestFitContains(lc, name) == StrFind(lc, name) < Len(lc)

\* the inner loop of find_best_fit over the effects of one entry, from slot
\* j on: `ret` when an effect name equals name (return it), else the
\* candidate vector with position k added once for every containing effect
RECURSIVE BestFitEffects(_, _, _, _, _)
BestFitEffects(it, k, j, name, vec) ==
    IF j > Len(it.effects) THEN [ret |-> FALSE, vec |-> vec]
    ELSE LET lc == tolower(it.effects[j].name)
         IN  IF lc = name THEN [ret |-> TRUE, vec |-> vec]
             ELSE BestFitEffects(it, k, j + 1, name,
                    IF BestFitContains(lc, name) THEN Append(vec, k) ELSE vec)

\* the result when the loop ends without an exact match: vec.front(), or
\* end() (Len + 1) when vec is empty
BestFitPick(reg, vec) ==
    IF vec = <<>> THEN Len(reg) + 1 ELSE vec[1]

\* the loops of the three branches of find_best_fit, from position k on
RECURSIVE BestFitLoop(_, _, _, _, _)
BestFitLoop(reg, k, name, search, vec) ==
    IF k > Len(reg) THEN BestFitPick(reg, vec)
    ELSE LET name_lc == tolower(reg[k].name)
             fx == BestFitEffects(reg[k], k, 1, name, vec)
         IN  CASE search = "INGR" ->
                    IF name_lc = name THEN k
                    ELSE BestFitLoop(reg, k + 1, name, search,
                            IF BestFitContains(name_lc, name) THEN Append(vec, k) ELSE vec)
               [] search = "BOTH" ->
                    IF name_lc = name THEN k
                    ELSE IF BestFitContains(name_lc, name)
                    THEN BestFitLoop(reg, k + 1, name, search, Append(vec, k))
                    ELSE IF fx.ret THEN k
                    ELSE BestFitLoop(reg, k + 1, name, search, fx.vec)
               [] search = "EFFECT" ->
                    IF fx.ret THEN k
                    ELSE BestFitLoop(reg, k + 1, name, search, fx.vec)

\* RegistryType::find_best_fit: the position returned, Len + 1 for end()
find_best_fit(reg, name, search) == BestFitLoop(reg, 1, name, search, <<>>)

FindType == {"BOTH", "INGR", "EFFECT"}

----------------------------------------------------------------------------
(* Format.hpp: the render engine *)

\* str::pos_valid: the position is not npos
pos_valid(pos) == pos # npos

\* the tuple { name, {}, {} } of a name without a highlighted part
NoSplit(name) == <<name, <<>>, <<>>>>

\* the tuple { name.substr(0, pos), name.substr(pos, n), name.substr(pos + n) }
SplitAt(name, pos, n) ==
    <<substr(name, 0, pos), substr(name, pos, n), substr(name, pos + n, Len(name))>>

\* Formatter::split_name: the loop over search_strings, from the k-th on
RECURSIVE SplitNameLoop(_, _, _)
SplitNameLoop(name, search_strings, k) ==
    IF k > Len(search_strings) THEN NoSplit(name)
    ELSE LET search_str == search_strings[k]
             pos == StrFind(tolower(name), tolower(search_str))
         IN  IF pos_valid(pos) THEN SplitAt(name, pos, Len(search_str))
             ELSE SplitNameLoop(name, search_strings, k + 1)

\* Formatter::split_name(name, vector of search strings)
split_name(name, search_strings) ==
    IF name # <<>> THEN SplitNameLoop(name, search_strings, 1) ELSE NoSplit(name)

\* how a call that calls itself without end stops: the stack overflows, or,
\* where the call is compiled as a jump, the process spins
NoReturn == {"stack overflow", "endless loop"}

\* Formatter::split_name(name, search_str): return split_name(name, { search_str })
\* selects this overload again ({ search_str } is a std::string), so the call
\* never returns
split_name_string(name, search_str, outcome) ==
    [returns |-> FALSE, outcome |-> outcome]

\* Formatter::split_name(name, optional vector of search strings)
split_name_optional(name, search_strings) ==
    IF search_strings.has_value THEN split_name(name, search_strings.value)
    ELSE NoSplit(name)

\* Format::get_tuple: the loop over highlights, from the k-th on
RECURSIVE GetTupleLoop(_, _, _)
GetTupleLoop(str, highlights, k) ==
    IF k > Len(highlights) THEN NoSplit(str)
    ELSE LET highlight == highlights[k]
             dPos == StrFind(tolower(str), highlight)
         IN  IF dPos # npos THEN SplitAt(str, dPos, Len(highlight))
             ELSE GetTupleLoop(str, highlights, k + 1)

\* Format::get_tuple(str, vector of highlights)
get_tuple(str, highlights) ==
    IF str # <<>> THEN GetTupleLoop(str, highlights, 1) ELSE NoSplit(str)

\* std::any_of over the search strings with the lambda match(name, search_str)
AnyMatch(f, name, search_strings) ==
    \E k \in 1..Len(search_strings) : match(f.flag_exact, name, search_strings[k])

\* the loop of get_fx that filters nothing
RECURSIVE GetFxLoopUnfiltered(_, _, _, _, _)
GetFxLoopUnfiltered(f, arr, names_lowercase, j, vec) ==
    IF j > Len(arr) THEN vec
    ELSE GetFxLoopUnfiltered(f, arr, names_lowercase, j + 1, Append(vec, arr[j]))

\* Format::get_fx: the loop over the effect array, from slot j on
RECURSIVE GetFxLoop(_, _, _, _, _)
GetFxLoop(f, arr, names_lowercase, j, vec) ==
    IF j > Len(arr) THEN vec
    ELSE IF ~f.flag_quiet
         THEN GetFxLoop(f, arr, names_lowercase, j + 1, Append(vec, arr[j]))
         ELSE IF AnyMatch(f, tolower(arr[j].name), names_lowercase)
              THEN IF f.flag_exact
                   THEN Append(vec, arr[j])
                   ELSE GetFxLoop(f, arr, names_lowercase, j + 1, Append(vec, arr[j]))
              ELSE GetFxLoop(f, arr, names_lowercase, j + 1, vec)

\* Format::get_fx(arr, names_lowercase)
get_fx(f, arr, names_lowercase) == GetFxLoop(f, arr, names_lowercase, 1, <<>>)

\* Formatter::vectorize_effects: the loop over the effect array, from slot j on
RECURSIVE VectorizeLoop(_, _, _, _, _)
VectorizeLoop(f, effects, search_strings, j, vec) ==
    IF j > Len(effects) THEN vec
    ELSE IF ~f.flag_quiet
         THEN VectorizeLoop(f, effects, search_strings, j + 1, Append(vec, effects[j]))
         ELSE IF AnyMatch(f, tolower(effects[j].name), search_strings)
              THEN VectorizeLoop(f, effects, search_strings, j + 1, Append(vec, effects[j]))
              ELSE VectorizeLoop(f, effects, search_strings, j + 1, vec)

\* Formatter::vectorize_effects(effects, search_strings)
vectorize_effects(f, effects, search_strings) ==
    VectorizeLoop(f, effects, search_strings, 1, <<>>)

\* the keywords an effect can carry: KYWD_MagicInfluence, a negative marker,
\* a positive marker and a keyword that is none of them
KYWD_MagicInfluence == "KYWD_MagicInfluence"
KYWD_Negative == "KYWD_Negative"
KYWD_Positive == "KYWD_Positive"
KYWD_Other == "KYWD_Other"

\* hasNegative(effect): the keyword set holds a negative marker
hasNegative(effect) == KYWD_Negative \in effect.keywords

\* hasPositive(effect): the keyword set holds a positive marker
hasPositive(effect) == KYWD_Positive \in effect.keywords

\* Effect::hasKeyword
hasKeyword(effect, kywd) == kywd \in effect.keywords

\* the substring table of the fallback: "damage" is negative, "restore" positive
FallbackNegative == { <<100, 97, 109, 97, 103, 101>> }
FallbackPositive == { <<114, 101, 115, 116, 111, 114, 101>> }

\* hasKeywordTypeFallback(name_lowercase): 0 neutral, 1 negative, 2 positive
hasKeywordTypeFallback(name_lowercase) ==
    IF \E t \in FallbackNegative : StrFind(name_lowercase, t) # npos THEN 1
    ELSE IF \E t \in FallbackPositive : StrFind(name_lowercase, t) # npos THEN 2
    ELSE 0

\* UIElement: the color tokens of an effect name
EFFECT_NAME_DEFAULT == "EFFECT_NAME_DEFAULT"
EFFECT_NAME_NEGATIVE == "EFFECT_NAME_NEGATIVE"
EFFECT_NAME_NEUTRAL == "EFFECT_NAME_NEUTRAL"
EFFECT_NAME_POSITIVE == "EFFECT_NAME_POSITIVE"

\* the keyword tier shared by both resolvers: the token, or "" to go on
KeywordColor(effect) ==
    IF effect.keywords # {}
    THEN IF hasNegative(effect) THEN EFFECT_NAME_NEGATIVE
         ELSE IF hasPositive(effect) THEN EFFECT_NAME_POSITIVE
         ELSE IF ~hasKeyword(effect, KYWD_MagicInfluence) THEN EFFECT_NAME_NEUTRAL
         ELSE ""
    ELSE ""

\* Formatter::getEffectColorizer
getEffectColorizer(f, effect) ==
    IF f.flag_color
    THEN IF KeywordColor(effect) # "" THEN KeywordColor(effect)
         ELSE LET type == hasKeywordTypeFallback(tolower(effect.name))
              IN  CASE type = 0 -> EFFECT_NAME_NEUTRAL
                    [] type = 1 -> EFFECT_NAME_NEGATIVE
                    [] type = 2 -> EFFECT_NAME_POSITIVE
                    [] OTHER    -> EFFECT_NAME_DEFAULT
    ELSE EFFECT_NAME_DEFAULT

\* Format::resolveEffectColor
resolveEffectColor(f, effect) ==
    IF f.flag_color THEN EFFECT_NAME_NEUTRAL
    ELSE IF KeywordColor(effect) # "" THEN KeywordColor(effect)
    ELSE EFFECT_NAME_DEFAULT

\* the elements of a container from rbegin() to rend()
Reverse(s) == [i \in 1..Len(s) |-> s[Len(s) + 1 - i]]

\* Format::to_fstream(os, SortedIngrList) and to_fstream(os, IngrList): the
\* elements whose blocks are inserted, in the order of insertion
to_fstream_list(f, ingr_list) ==
    IF f.flag_reverse THEN Reverse(ingr_list) ELSE ingr_list

\* how the step that reads *end() of a std::set ends: the process is
\* stopped, an exception raised on the garbage read as a string leaves
\* to_stream, or the step returns to the loop
EndExits == {"crash", "std::bad_alloc", "std::length_error", "return"}

\* what the build can make of reading *end().  Of the block inserted for
\* whatever lies in the header node something reaches the stream (written) or
\* nothing does; the insertion leaves the stream good or with badbit set
\* (failed), and then nothing inserted later arrives.  A step that leaves the
\* stream good and the process alive has inserted the indentation that
\* precedes the name; of a stopped process no stream state is left to see
EndOutcomes ==
    {o \in [written : BOOLEAN, failed : BOOLEAN, exit : EndExits] :
        /\ o.exit = "crash" => ~o.failed
        /\ (o.exit # "crash" /\ ~o.failed) => o.written}

\* the block inserted for *end()
EndGarbage == [name |-> "end()", effects |-> <<>>]

\* Format::to_stream(os, SortedIngrList, search_strings), reverse loop: the
\* reverse iterator `it` stands on element i and it.base() on element i + 1,
\* which is end() for the first step
RECURSIVE ToStreamReverseLoop(_, _, _, _)
ToStreamReverseLoop(ingr_list, i, outcome, out) ==
    IF i < 1
    THEN [emitted |-> out, crashed |-> FALSE, failed |-> FALSE, thrown |-> "none"]
    ELSE IF i + 1 > Len(ingr_list)
         THEN LET end == IF outcome.written THEN Append(out, EndGarbage) ELSE out
              IN  CASE outcome.exit = "crash" ->
                        [emitted |-> end, crashed |-> TRUE, failed |-> outcome.failed,
                         thrown |-> "none"]
                    [] outcome.exit # "return" ->
                        [emitted |-> end, crashed |-> FALSE, failed |-> outcome.failed,
                         thrown |-> outcome.exit]
                    [] OTHER ->
                        IF outcome.failed
                        THEN [emitted |-> end, crashed |-> FALSE, failed |-> TRUE,
                              thrown |-> "none"]
                        ELSE ToStreamReverseLoop(ingr_list, i - 1, outcome, end)
         ELSE ToStreamReverseLoop(ingr_list, i - 1, outcome, Append(out, ingr_list[i + 1]))

\* Format::to_stream(os, SortedIngrList, search_strings)
to_stream_list(f, ingr_list, outcome) ==
    IF f.flag_reverse
    THEN ToStreamReverseLoop(ingr_list, Len(ingr_list), outcome, <<>>)
    ELSE [emitted |-> ingr_list, crashed |-> FALSE, failed |-> FALSE, thrown |-> "none"]

\* Format::list_to_stream(os, list)
list_to_stream(f, list) == list

\* one line of rendered text: its kind and what it carries
Line(kind, text, num, kywd) == [line |-> kind, text |-> text, num |-> num, kywd |-> kywd]

NameLine(name) == Line("name", name, 0, "")
OpenBrace == Line("{", <<>>, 0, "")
CloseBrace == Line("}", <<>>, 0, "")
BlankLine == Line("", <<>>, 0, "")

\* number of decimal digits of n
RECURSIVE Digits(_)
Digits(n) == IF n < 10 THEN 1 ELSE 1 + Digits(n \div 10)

RECURSIVE Pow10(_)
Pow10(k) == IF k = 0 THEN 1 ELSE 10 * Pow10(k - 1)

\* significant digits an ostream writes for a double (default precision)
StreamPrecision == 6

\* magnitudes are counted in millionths
Million == 1000000

\* bits behind the leading bit of the significand of a double
MantissaBits == 52

\* the power of two of the leading bit of m millionths
RECURSIVE BinaryExponent(_)
BinaryExponent(m) ==
    IF m = 0 THEN 0
    ELSE IF m >= 2 * Million THEN BinaryExponent(m \div 2) + 1
    ELSE IF m < Million THEN BinaryExponent(2 * m) - 1
    ELSE 0

\* (r * 2^k) modulo one million
RECURSIVE DoubleMod(_, _)
DoubleMod(r, k) == IF k = 0 THEN r ELSE DoubleMod((2 * r) % Million, k - 1)

\* where the double nearest to m millionths lies: m / 10^6 scaled by 2^k is
\* rounded to an integer significand, k = 52 - exponent, and the remainder
\* of m * 2^k by 10^6 tells which way
DoubleSide(m) ==
    LET rem == DoubleMod(m % Million, MantissaBits - BinaryExponent(m))
    IN  IF rem = 0 THEN "exact"
        ELSE IF 2 * rem < Million THEN "below" ELSE "above"

\* operator<<(double) of an ostream: the double rounded to 6 significant
\* digits.  Where the decimal digits cut off are exactly one half of the last
\* digit kept, the double decides: it lies below or above the half, or is the
\* half exactly and the last digit kept is made even
StreamDouble(m) ==
    IF Digits(m) <= StreamPrecision THEN m
    ELSE LET scale == Pow10(Digits(m) - StreamPrecision)
             kept == m \div scale
             cut == m % scale
             up == IF 2 * cut # scale THEN 2 * cut > scale
                   ELSE CASE DoubleSide(m) = "above" -> TRUE
                          [] DoubleSide(m) = "below" -> FALSE
                          [] OTHER -> kept % 2 = 1
         IN  (IF up THEN kept + 1 ELSE kept) * scale

\* "\t\tmagnitude = " << fx._magnitude
MagnitudeLine(m) == Line("magnitude", <<>>, StreamDouble(m), "")

\* "\t\tduration = " << fx._duration
DurationLine(d) == Line("duration", <<>>, d, "")

\* the order of a KeywordList
KeywordOrder == <<KYWD_MagicInfluence, KYWD_Negative, KYWD_Other, KYWD_Positive>>

\* os << fx._keywords: one line per keyword, in the order of the list
RECURSIVE KeywordLines(_, _)
KeywordLines(keywords, k) ==
    IF k > Len(KeywordOrder) THEN <<>>
    ELSE (IF KeywordOrder[k] \in keywords
          THEN <<Line("keyword", <<>>, 0, KeywordOrder[k])>> ELSE <<>>)
         \o KeywordLines(keywords, k + 1)

\* the lines of one effect in the registry format
EffectBlock(fx) ==
    <<NameLine(fx.name), OpenBrace, MagnitudeLine(fx.magnitude), DurationLine(fx.duration)>>
        \o KeywordLines(fx.keywords, 1) \o <<CloseBrace>>

\* Format::to_fstream(os, Ingredient): the loop over ingr._effects
RECURSIVE ToFstreamEffects(_, _)
ToFstreamEffects(effects, j) ==
    IF j > Len(effects) THEN <<>>
    ELSE EffectBlock(effects[j]) \o ToFstreamEffects(effects, j + 1)

\* Format::to_fstream(os, Ingredient)
to_fstream(ingredient) ==
    <<NameLine(ingredient.name), OpenBrace>>
        \o ToFstreamEffects(ingredient.effects, 1) \o <<CloseBrace>>

\* Formatter::ToStream<Effect> operator<<, the loop over fx._keywords: an
\* empty line and the line of the keyword, for each keyword
RECURSIVE ToStreamKeywords(_, _)
ToStreamKeywords(keywords, k) ==
    IF k > Len(KeywordOrder) THEN <<>>
    ELSE (IF KeywordOrder[k] \in keywords
          THEN <<BlankLine, Line("keyword", <<>>, 0, KeywordOrder[k])>> ELSE <<>>)
         \o ToStreamKeywords(keywords, k + 1)

\* the search strings of a ToStream built without any
NoSearched == [has_value |-> FALSE, value |-> <<>>]

\* Formatter::ToStream<Effect> operator<<: in the registry format the block
\* of the effect; otherwise one line of the split name in the color of the
\* effect, the magnitude if it is positive or all is set, the duration and
\* 's' if it is positive or all is set (the numbers are handed to
\* str::to_string with the precision), then the keywords if verbose or all
ToStreamEffect(f, fx) ==
    IF f.flag_export THEN EffectBlock(fx)
    ELSE << [line |-> "effect",
             split |-> split_name_optional(fx.name, NoSearched),
             color |-> getEffectColorizer(f, fx),
             magnitude |-> IF fx.magnitude > 0 \/ f.flag_all
                           THEN <<fx.magnitude>> ELSE <<>>,
             duration |-> IF fx.duration > 0 \/ f.flag_all
                          THEN <<fx.duration>> ELSE <<>>] >>
         \o (IF f.flag_verbose \/ f.flag_all
             THEN ToStreamKeywords(fx.keywords, 1) ELSE <<>>)

\* Formatter::ToStream<Ingredient> operator<<, export: the loop over _effects
RECURSIVE ToStreamExportEffects(_, _, _)
ToStreamExportEffects(f, effects, j) ==
    IF j > Len(effects) THEN <<>>
    ELSE ToStreamEffect(f, effects[j]) \o <<BlankLine>>
            \o ToStreamExportEffects(f, effects, j + 1)

\* Formatter::ToStream<std::vector<Effect>> operator<<
RECURSIVE ToStreamEffectVector(_, _, _)
ToStreamEffectVector(f, vec, j) ==
    IF j > Len(vec) THEN <<>>
    ELSE ToStreamEffect(f, vec[j]) \o <<BlankLine>> \o ToStreamEffectVector(f, vec, j + 1)

\* Formatter::ToStream<Ingredient> operator<<
ToStreamIngredient(f, ingredient) ==
    IF f.flag_export
    THEN <<NameLine(ingredient.name), OpenBrace>>
            \o ToStreamExportEffects(f, ingredient.effects, 1)
    ELSE <<NameLine(ingredient.name)>> \o ToStreamEffectVector(f, ingredient.effects, 1)

\* the record source reading one exported block back: lines without text are
\* skipped, the block is `name { (name { magnitude duration keyword* })x4 }`
NonBlank(lines) == SelectSeq(lines, LAMBDA l : l.line # "")

\* the keyword lines from position pos on
RECURSIVE ReadKeywords(_, _, _)
ReadKeywords(lines, pos, keywords) ==
    IF pos <= Len(lines) /\ lines[pos].line = "keyword"
    THEN ReadKeywords(lines, pos + 1, keywords \cup {lines[pos].kywd})
    ELSE [pos |-> pos, keywords |-> keywords]

\* n effect blocks from position pos on
RECURSIVE ReadEffects(_, _, _, _)
ReadEffects(lines, pos, n, effects) ==
    IF n = 0 THEN [ok |-> TRUE, pos |-> pos, effects |-> effects]
    ELSE IF /\ pos + 3 <= Len(lines)
            /\ lines[pos].line = "name"
            /\ lines[pos + 1].line = "{"
            /\ lines[pos + 2].line = "magnitude"
            /\ lines[pos + 3].line = "duration"
         THEN LET kw == ReadKeywords(lines, pos + 4, {})
              IN  IF kw.pos <= Len(lines) /\ lines[kw.pos].line = "}"
                  THEN ReadEffects(lines, kw.pos + 1, n - 1,
                           Append(effects, Effect(lines[pos].text, lines[pos + 2].num,
                                                  lines[pos + 3].num, kw.keywords)))
                  ELSE [ok |-> FALSE, pos |-> pos, effects |-> effects]
         ELSE [ok |-> FALSE, pos |-> pos, effects |-> effects]

\* one block read back: the ingredient, or a failure for a malformed block
ReadIngredient(text) ==
    LET lines == NonBlank(text)
    IN  IF Len(lines) >= 2 /\ lines[1].line = "name" /\ lines[2].line = "{"
        THEN LET fx == ReadEffects(lines, 3, NumSlots, <<>>)
             IN  IF fx.ok /\ fx.pos = Len(lines) /\ lines[fx.pos].line = "}"
                 THEN [ok |-> TRUE, ingredient |-> Ingredient(lines[1].text, fx.effects)]
                 ELSE [ok |-> FALSE]
        ELSE [ok |-> FALSE]

----------------------------------------------------------------------------
(* Inputs of the potion aggregator *)

\* <<ingredient name, the names of its 4 effects>>. Ingredients "A" .. "D";
\* effect names "F", "H", "P" .. "W", and the lower-case "f", "h" (effect
\* identity is case-sensitive). "C" carries "F" on two of its own slots.
PotionLayouts ==
    { << <<65>>, <<  <<70>>,  <<72>>, <<80>>, <<81>> >> >>,
      << <<66>>, <<  <<72>>,  <<70>>, <<82>>, <<83>> >> >>,
      << <<67>>, <<  <<70>>,  <<70>>, <<84>>, <<85>> >> >>,
      << <<68>>, << <<102>>, <<104>>, <<86>>, <<87>> >> >> }

\* an ingredient of a layout: odd slots carry (m, d), even slots (d, m)
PotionIngredient(layout, m, d) ==
    Ingredient(layout[1],
        [j \in 1..NumSlots |->
            IF j % 2 = 1 THEN Effect(layout[2][j], m, d, {})
                         ELSE Effect(layout[2][j], d, m, {})])

\* the values drawn: magnitude or duration (or both) is the largest value
PotionValues == {v \in (1..MaxVal) \X (1..MaxVal) : v[1] = MaxVal \/ v[2] = MaxVal}

PotionPool ==
    {PotionIngredient(l, v[1], v[2]) : l \in PotionLayouts, v \in PotionValues}

\* the ingredients that lists longer than the aggregator accepts are made of
OversizePool ==
    {i \in PotionPool : i.name = <<65>> /\ i.effects[1].magnitude = 1}

NoRegistry == [built |-> FALSE, list |-> <<>>, count |-> 0, from |-> "none"]
NoQuery == [op |-> "none"]
NoRender == [op |-> "none"]
NoRun == [pc |-> "none"]

\* Format(): the default arguments of the constructor
DefaultFormat == OutputFormat(FALSE, TRUE, FALSE, FALSE, FALSE, FALSE, TRUE, FALSE)

InitPotion ==
    /\ ingr = <<>>
    /\ potion = NoPotion
    /\ registry = NoRegistry
    /\ query = NoQuery
    /\ fmt = DefaultFormat
    /\ render = NoRender
    /\ run = NoRun

\* the caller collects one more ingredient for the build
AddIngredient ==
    /\ potion.state = "none"
    /\ Len(ingr) < MaxIngr
    /\ \E i \in PotionPool :
        /\ Len(ingr) >= 4 => (i \in OversizePool /\ \A k \in 1..Len(ingr) : ingr[k] \in OversizePool)
        /\ ingr' = Append(ingr, i)
    /\ UNCHANGED <<potion, registry, query, fmt, render, run>>

\* Potion(ingredients, gs)
BuildPotion ==
    /\ potion.state = "none"
    /\ \E gs \in GameSettingsPool : potion' = Potion(ingr, gs)
    /\ UNCHANGED <<ingr, registry, query, fmt, render, run>>

\* Potion(name, ingredients, gs)
BuildNamedPotion ==
    /\ potion.state = "none"
    /\ \E name \in PotionNames, gs \in GameSettingsPool :
        potion' = PotionNamed(name, ingr, gs)
    /\ UNCHANGED <<ingr, registry, query, fmt, render, run>>

NextPotion == AddIngredient \/ BuildPotion \/ BuildNamedPotion

SpecPotion == InitPotion /\ [][NextPotion]_vars

----------------------------------------------------------------------------
(* Helpers of the properties *)

\* all sightings: <<ingredient position, slot, effect>>
Sightings(list) ==
    {<<i, j, list[i].effects[j]>> : i \in 1..Len(list), j \in 1..NumSlots}

SightingsOf(list, n) == {s \in Sightings(list) : s[3].name = n}

\* positions of the ingredients that carry an effect named n
CarriersOf(list, n) == {s[1] : s \in SightingsOf(list, n)}

EffectNames(list) == {s[3].name : s \in Sightings(list)}

SetMax(S) == CHOOSE x \in S : \A y \in S : y <= x

Range(f) == {f[i] : i \in DOMAIN f}

Built == potion.state = "built"

----------------------------------------------------------------------------
(* Inputs and operations of the registry *)

\* ingredient names "A", "Ab", "a", "ab" (ascending under less)
RegistryNames == { <<65>>, <<65, 98>>, <<97>>, <<97, 98>> }

\* two effect rows: "Ab", "c", "d", "e" and "a", "B", "d", "E"
RegistryRows ==
    { << Effect(<<65, 98>>, 1, 0, {}), Effect(<<99>>, 2, 5, {}),
         Effect(<<100>>, 0, 0, {}),    Effect(<<101>>, 3, 1, {}) >>,
      << Effect(<<97>>, 2, 2, {}),     Effect(<<66>>, 0, 4, {}),
         Effect(<<100>>, 1, 1, {}),    Effect(<<69>>, 0, 0, {}) >> }

RegistryPool == {Ingredient(n, fx) : n \in RegistryNames, fx \in RegistryRows}

\* the searched names: "", "a", "A", "b", "Ab", "ab", "c"
QueryNames == { <<>>, <<97>>, <<65>>, <<98>>, <<65, 98>>, <<97, 98>>, <<99>> }

\* the containers a registry is constructed from or assigned: the std::set of
\* no ingredient, of "ab", and of "A" and "Ab"
Containers ==
    LET r == CHOOSE row \in RegistryRows : row[1].name = <<65, 98>>
    IN  { <<>>,
          <<Ingredient(<<97, 98>>, r)>>,
          <<Ingredient(<<65>>, r), Ingredient(<<65, 98>>, r)>> }

InitRegistry ==
    /\ ingr = <<>>
    /\ potion = NoPotion
    /\ registry = NoRegistry
    /\ query = NoQuery
    /\ fmt = DefaultFormat
    /\ render = NoRender
    /\ run = NoRun

\* the record source supplies one more ingredient of the unordered list
LoadIngredient ==
    /\ ~registry.built
    /\ Len(ingr) < MaxList
    /\ \E i \in RegistryPool : ingr' = Append(ingr, i)
    /\ UNCHANGED <<potion, registry, query, fmt, render, run>>

\* RegistryType(IngrList&&): _ingr{ sort(std::move(ingr_cont)).first }
ConstructRegistry ==
    /\ ~registry.built
    /\ registry' = [built |-> TRUE, list |-> sort(ingr).first, count |-> sort(ingr).second,
                    from |-> "IngrList"]
    /\ UNCHANGED <<ingr, potion, query, fmt, render, run>>

\* explicit RegistryType(Container&&): _ingr{ std::move(ingr_cont) }, no sort;
\* the caller holds a container instead of an unordered list
ConstructFromContainer ==
    /\ ~registry.built
    /\ ingr = <<>>
    /\ \E ingr_cont \in Containers :
        registry' = [built |-> TRUE, list |-> ingr_cont, count |-> 0, from |-> "Container"]
    /\ UNCHANGED <<ingr, potion, query, fmt, render, run>>

\* operator=(IngredientCache&&): _ingr = std::move(cache._ingr)
AssignMovedCache ==
    /\ registry.built
    /\ query.op = "none"
    /\ \E cache \in Containers :
        registry' = [registry EXCEPT !.list = cache, !.from = "Container"]
    /\ UNCHANGED <<ingr, potion, query, fmt, render, run>>

\* operator=(const IngredientCache&): _ingr = cache._ingr
AssignCache ==
    /\ registry.built
    /\ query.op = "none"
    /\ \E cache \in Containers :
        registry' = [registry EXCEPT !.list = cache, !.from = "Container"]
    /\ UNCHANGED <<ingr, potion, query, fmt, render, run>>

\* operator=(Container&&): _ingr = std::move(cont)
AssignContainer ==
    /\ registry.built
    /\ query.op = "none"
    /\ \E cont \in Containers :
        registry' = [registry EXCEPT !.list = cont, !.from = "Container"]
    /\ UNCHANGED <<ingr, potion, query, fmt, render, run>>

\* a first call of get, from any position off of the registry
GetFirst ==
    /\ registry.built
    /\ query.op = "none"
    /\ \E name \in QueryNames, off \in 1..(Len(registry.list) + 1),
          only_effects \in BOOLEAN, flag_exact \in BOOLEAN :
        LET it == get(registry.list, name, off, only_effects, flag_exact)
        IN  query' = [op |-> "get", name |-> name, only_effects |-> only_effects,
                      flag_exact |-> flag_exact, start |-> off, off |-> off,
                      it |-> it,
                      hits |-> IF it = Len(registry.list) + 1 THEN <<>> ELSE <<it>>,
                      done |-> it = Len(registry.list) + 1]
    /\ UNCHANGED <<ingr, potion, registry, fmt, render, run>>

\* the caller advances past the last hit and calls get again
GetNext ==
    /\ query.op = "get"
    /\ ~query.done
    /\ LET it == get(registry.list, query.name, query.it + 1,
                     query.only_effects, query.flag_exact)
       IN  query' = [query EXCEPT
                        !.off = query.it + 1,
                        !.it = it,
                        !.hits = IF it = Len(registry.list) + 1 THEN @ ELSE Append(@, it),
                        !.done = it = Len(registry.list) + 1]
    /\ UNCHANGED <<ingr, potion, registry, fmt, render, run>>

\* find(name, pred, search)
Find ==
    /\ registry.built
    /\ query.op = "none"
    /\ \E name \in QueryNames, flag_exact \in BOOLEAN, search \in FindType :
        query' = [op |-> "find", name |-> name, flag_exact |-> flag_exact,
                  search |-> search,
                  result |-> find(registry.list, name, flag_exact, search)]
    /\ UNCHANGED <<ingr, potion, registry, fmt, render, run>>

\* find_best_fit(name, search)
FindBestFit ==
    /\ registry.built
    /\ query.op = "none"
    /\ \E name \in QueryNames, search \in FindType :
        query' = [op |-> "find_best_fit", name |-> name, search |-> search,
                  it |-> find_best_fit(registry.list, name, search)]
    /\ UNCHANGED <<ingr, potion, registry, fmt, render, run>>

NextRegistry ==
    \/ LoadIngredient \/ ConstructRegistry \/ ConstructFromContainer
    \/ AssignMovedCache \/ AssignCache \/ AssignContainer
    \/ GetFirst \/ GetNext \/ Find \/ FindBestFit

SpecRegistry == InitRegistry /\ [][NextRegistry]_vars

----------------------------------------------------------------------------
(* Render engine inputs *)

\* longest list of search terms handed to a render call
MaxTerms == 2

\* the rendered names: "", "AbaB", "ab", "cAb"
FormatNames == { <<>>, <<65, 98, 97, 66>>, <<97, 98>>, <<99, 65, 98>> }

\* the search terms: "", "ab", "AB", "b", "d"
FormatTerms == { <<>>, <<97, 98>>, <<65, 66>>, <<98>>, <<100>> }

\* the lists of search terms, in every order
TermLists == UNION {[1..n -> FormatTerms] : n \in 0..MaxTerms}

\* std::optional<std::vector<std::string>>
OptionalTermLists ==
    {[has_value |-> TRUE, value |-> t] : t \in TermLists}
        \cup {[has_value |-> FALSE, value |-> <<>>]}

\* effect arrays of 4 slots; slot j carries magnitude j
\*   "Ab", "b", "ab", "d"   and   "d", "AB", "c", "b"
FxSlots(n1, n2, n3, n4) ==
    <<Effect(n1, 1, 0, {}), Effect(n2, 2, 0, {}), Effect(n3, 3, 0, {}), Effect(n4, 4, 0, {})>>

FxArrays ==
    { FxSlots(<<65, 98>>, <<98>>, <<97, 98>>, <<100>>),
      FxSlots(<<100>>, <<65, 66>>, <<99>>, <<98>>) }

\* the keyword sets of the colored effects
KeywordSets ==
    { {}, {KYWD_Negative}, {KYWD_Positive}, {KYWD_Negative, KYWD_Positive},
      {KYWD_MagicInfluence}, {KYWD_Other}, {KYWD_MagicInfluence, KYWD_Other},
      {KYWD_MagicInfluence, KYWD_Positive} }

\* the names of the colored effects: "Damage", "Restore", "Ab"
ColorNames == { <<68, 97, 109, 97, 103, 101>>, <<82, 101, 115, 116, 111, 114, 101>>, <<65, 98>> }

ColorEffects == {Effect(n, 1, 1, k) : n \in ColorNames, k \in KeywordSets}

\* the flag bundles: quiet, exact and color in every combination
FormatPool ==
    {OutputFormat(quiet, TRUE, exact, FALSE, FALSE, FALSE, color, FALSE) :
        quiet \in BOOLEAN, exact \in BOOLEAN, color \in BOOLEAN}

InitFormat ==
    /\ ingr = <<>>
    /\ potion = NoPotion
    /\ registry = NoRegistry
    /\ query = NoQuery
    /\ fmt \in FormatPool
    /\ render = NoRender
    /\ run = NoRun

\* match(objName, searchName)
Match ==
    /\ render.op = "none"
    /\ \E objName \in FormatNames \cup FormatTerms, searchName \in FormatNames \cup FormatTerms :
        render' = [op |-> "match", objName |-> objName, searchName |-> searchName,
                   result |-> match(fmt.flag_exact, objName, searchName)]
    /\ UNCHANGED <<ingr, potion, registry, query, fmt, run>>

\* split_name(name, search_strings), with or without a list of search strings
SplitName ==
    /\ render.op = "none"
    /\ \E name \in FormatNames, search_strings \in OptionalTermLists :
        render' = [op |-> "split_name", name |-> name,
                   supplied |-> search_strings.has_value,
                   terms |-> search_strings.value, returns |-> TRUE,
                   result |-> split_name_optional(name, search_strings)]
    /\ UNCHANGED <<ingr, potion, registry, query, fmt, run>>

\* split_name(name, search_str), the overload of a single search string
SplitNameString ==
    /\ render.op = "none"
    /\ \E name \in FormatNames, search_str \in FormatTerms, outcome \in NoReturn :
        LET r == split_name_string(name, search_str, outcome)
        IN  render' = [op |-> "split_name", name |-> name, supplied |-> TRUE,
                       terms |-> <<search_str>>, returns |-> r.returns,
                       outcome |-> r.outcome]
    /\ UNCHANGED <<ingr, potion, registry, query, fmt, run>>

\* get_tuple(str, highlights)
GetTuple ==
    /\ render.op = "none"
    /\ \E str \in FormatNames, highlights \in TermLists :
        render' = [op |-> "get_tuple", name |-> str, supplied |-> TRUE,
                   terms |-> highlights, returns |-> TRUE,
                   result |-> get_tuple(str, highlights)]
    /\ UNCHANGED <<ingr, potion, registry, query, fmt, run>>

\* get_fx(arr, names_lowercase)
GetFx ==
    /\ render.op = "none"
    /\ \E arr \in FxArrays, names_lowercase \in TermLists :
        render' = [op |-> "get_fx", effects |-> arr, terms |-> names_lowercase,
                   result |-> get_fx(fmt, arr, names_lowercase)]
    /\ UNCHANGED <<ingr, potion, registry, query, fmt, run>>

\* vectorize_effects(effects, search_strings)
VectorizeEffects ==
    /\ render.op = "none"
    /\ \E effects \in FxArrays, search_strings \in TermLists :
        render' = [op |-> "vectorize_effects", effects |-> effects,
                   terms |-> search_strings,
                   result |-> vectorize_effects(fmt, effects, search_strings)]
    /\ UNCHANGED <<ingr, potion, registry, query, fmt, run>>

\* getEffectColorizer(effect)
GetEffectColorizer ==
    /\ render.op = "none"
    /\ \E effect \in ColorEffects :
        render' = [op |-> "getEffectColorizer", effect |-> effect,
                   result |-> getEffectColorizer(fmt, effect)]
    /\ UNCHANGED <<ingr, potion, registry, query, fmt, run>>

\* resolveEffectColor(effect)
ResolveEffectColor ==
    /\ render.op = "none"
    /\ \E effect \in ColorEffects :
        render' = [op |-> "resolveEffectColor", effect |-> effect,
                   result |-> resolveEffectColor(fmt, effect)]
    /\ UNCHANGED <<ingr, potion, registry, query, fmt, run>>

NextFormat ==
    \/ Match \/ SplitName \/ SplitNameString \/ GetTuple \/ GetFx \/ VectorizeEffects
    \/ GetEffectColorizer \/ ResolveEffectColor

SpecFormat == InitFormat /\ [][NextFormat]_vars

----------------------------------------------------------------------------
(* Rendering of collections and export: inputs *)

\* the rendered ingredients "A", "Ab", "a", each with the first effect row
RenderIngredients ==
    {i \in RegistryPool : i.name \in {<<65>>, <<65, 98>>, <<97>>} /\ i.effects[1].name = <<65, 98>>}

\* the containers handed to a list renderer, in every order
RenderLists == UNION {[1..n -> RenderIngredients] : n \in 0..MaxList}

\* exported effect rows; magnitudes in millionths: 0.5, 0, 2, 100.25 in the
\* first row, 1.234567 and 1.234565 in the second
ExportRows ==
    { << Effect(<<65, 98>>, 500000, 0, {}),
         Effect(<<99>>, 0, 5, {KYWD_Negative}),
         Effect(<<100>>, 2000000, 30, {KYWD_MagicInfluence, KYWD_Positive}),
         Effect(<<101>>, 100250000, 1, {KYWD_Other}) >>,
      << Effect(<<97>>, 1234567, 2, {}),
         Effect(<<66>>, 0, 4, {KYWD_Positive}),
         Effect(<<100>>, 1234565, 1, {}),
         Effect(<<69>>, 0, 0, {KYWD_Negative, KYWD_Other}) >> }

ExportIngredients == {Ingredient(n, fx) : n \in {<<65>>, <<65, 98>>}, fx \in ExportRows}

\* the flag bundles of a rendering: export and reverse in every combination
RenderPool ==
    {OutputFormat(FALSE, TRUE, FALSE, FALSE, fileExport, reverse, TRUE, FALSE) :
        fileExport \in BOOLEAN, reverse \in BOOLEAN}

InitRender ==
    /\ ingr = <<>>
    /\ potion = NoPotion
    /\ registry = NoRegistry
    /\ query = NoQuery
    /\ fmt \in RenderPool
    /\ render = NoRender
    /\ run = NoRun

\* to_fstream(os, SortedIngrList) and to_fstream(os, IngrList)
ToFstreamList ==
    /\ render.op = "none"
    /\ \E ingr_cont \in RenderLists, sorted \in BOOLEAN :
        LET list == IF sorted THEN sort(ingr_cont).first ELSE ingr_cont
        IN  render' = [op |-> "to_fstream_list", sorted |-> sorted, list |-> list,
                       emitted |-> to_fstream_list(fmt, list), crashed |-> FALSE,
                       failed |-> FALSE, thrown |-> "none"]
    /\ UNCHANGED <<ingr, potion, registry, query, fmt, run>>

\* to_stream(os, SortedIngrList, search_strings)
ToStreamList ==
    /\ render.op = "none"
    /\ \E ingr_cont \in RenderLists, outcome \in EndOutcomes :
        LET list == sort(ingr_cont).first
            out == to_stream_list(fmt, list, outcome)
        IN  render' = [op |-> "to_stream_list", sorted |-> TRUE, list |-> list,
                       emitted |-> out.emitted, crashed |-> out.crashed,
                       failed |-> out.failed, thrown |-> out.thrown]
    /\ UNCHANGED <<ingr, potion, registry, query, fmt, run>>

\* list_to_stream(os, list)
ListToStream ==
    /\ render.op = "none"
    /\ \E ingr_cont \in RenderLists :
        LET list == sort(ingr_cont).first
        IN  render' = [op |-> "list_to_stream", sorted |-> TRUE, list |-> list,
                       emitted |-> list_to_stream(fmt, list), crashed |-> FALSE,
                       failed |-> FALSE, thrown |-> "none"]
    /\ UNCHANGED <<ingr, potion, registry, query, fmt, run>>

\* to_fstream(os, Ingredient)
ToFstream ==
    /\ render.op = "none"
    /\ \E ingredient \in ExportIngredients :
        render' = [op |-> "to_fstream", ingredient |-> ingredient,
                   lines |-> to_fstream(ingredient)]
    /\ UNCHANGED <<ingr, potion, registry, query, fmt, run>>

\* os << ToStream<Ingredient>
ToStream ==
    /\ render.op = "none"
    /\ \E ingredient \in ExportIngredients :
        render' = [op |-> "ToStream", ingredient |-> ingredient,
                   lines |-> ToStreamIngredient(fmt, ingredient)]
    /\ UNCHANGED <<ingr, potion, registry, query, fmt, run>>

NextRender == ToFstreamList \/ ToStreamList \/ ListToStream \/ ToFstream \/ ToStream

SpecRender == InitRender /\ [][NextRender]_vars

----------------------------------------------------------------------------
(* main.cpp, handle_arguments.hpp, UserAssist.hpp: the program entry *)

\* the flags of the command line that select a mode
Flags == [i : BOOLEAN, l : BOOLEAN, b : BOOLEAN, s : BOOLEAN, S : BOOLEAN]

\* what a called operation can throw
Throwables == {"none", "std::exception", "other"}

\* handle_arguments(opt::Params&&, Alchemy&&) of handle_arguments.hpp: the
\* print calls it makes and the value it returns
handle_arguments(args) ==
    IF args.i THEN [modes |-> <<"stdin-build">>, ret |-> 0]
    ELSE IF args.l THEN [modes |-> <<"list">>, ret |-> 0]
    ELSE [modes |-> IF args.b THEN <<"build">>
                    ELSE IF args.s \/ args.S
                         THEN IF args.S THEN <<"smart-search">> ELSE <<"search">>
                         ELSE <<>>,
          ret |-> 0]

\* handle_arguments(opt::Param&&, Alchemy&&, GameSettings&&) of UserAssist.hpp
handle_arguments_UserAssist(args) ==
    [modes |-> (IF args.l THEN <<"list">> ELSE <<>>)
                \o (IF args.b THEN <<"build">>
                    ELSE IF args.s THEN <<"search">> ELSE <<>>),
     ret |-> 0]

\* Instance::handleArguments, as the documentation of main describes what it
\* returns: 1 when no valid option was found, 0 after a successful execution
handleArguments(args) ==
    LET modes == handle_arguments(args).modes
    IN  [modes |-> modes, ret |-> IF modes = <<>> THEN 1 ELSE 0]

\* the programs: alch/main.cpp ends in Instance::handleArguments, and
\* alch_win/main.cpp (release mode) in one of the two handle_arguments
Programs ==
    {[main |-> "alch", handler |-> "handleArguments"]}
        \cup {[main |-> "alch_win", handler |-> h] :
                h \in {"handle_arguments", "handle_arguments_UserAssist"}}

InitMain ==
    /\ ingr = <<>>
    /\ potion = NoPotion
    /\ registry = NoRegistry
    /\ query = NoQuery
    /\ fmt = DefaultFormat
    /\ render = NoRender
    /\ run \in {[pc |-> "main", program |-> p] : p \in Programs}

\* main, try block up to the call of the handler: the arguments are parsed
\* and the instance is set up, which may throw
ParseArguments ==
    /\ run.pc = "main"
    /\ \E args \in Flags, thrown \in Throwables :
        run' = [pc |-> IF thrown = "none" THEN "handle" ELSE "catch",
                program |-> run.program, args |-> args, modes |-> <<>>,
                thrown |-> thrown, code |-> 0]
    /\ UNCHANGED <<ingr, potion, registry, query, fmt, render>>

\* return handle_arguments(...): the print calls of the selected modes are
\* made one after the other.  What the handler does before the first of them
\* (reading the flags and parameters, building the Format) and each of them
\* may throw, and then the calls behind are not made
HandleArguments ==
    /\ run.pc = "handle"
    /\ LET h == CASE run.program.handler = "handle_arguments" ->
                        handle_arguments(run.args)
                  [] run.program.handler = "handle_arguments_UserAssist" ->
                        handle_arguments_UserAssist(run.args)
                  [] OTHER -> handleArguments(run.args)
       IN  \E thrown \in Throwables, k \in 0..Len(h.modes) :
            run' = [run EXCEPT !.modes = IF thrown = "none" THEN h.modes
                                        ELSE SubSeq(h.modes, 1, k),
                               !.thrown = thrown,
                               !.code = IF thrown = "none" THEN h.ret ELSE 0,
                               !.pc = IF thrown = "none" THEN "exit" ELSE "catch"]
    /\ UNCHANGED <<ingr, potion, registry, query, fmt, render>>

\* catch (std::exception&) { return -1; } catch (...) { return -2; }
Catch ==
    /\ run.pc = "catch"
    /\ run' = [run EXCEPT !.code = IF run.thrown = "std::exception" THEN -1 ELSE -2,
                          !.pc = "exit"]
    /\ UNCHANGED <<ingr, potion, registry, query, fmt, render>>

NextMain == ParseArguments \/ HandleArguments \/ Catch

SpecMain == InitMain /\ [][NextMain]_vars

----------------------------------------------------------------------------
(* Potion aggregator: properties *)

\* C1 (as claimed): the common list holds exactly one entry for each effect
\* name carried by at least two distinct ingredients of the input, and no
\* entry for any other name.
C1_CommonIffOnTwoIngredients ==
    Built =>
        /\ \A k \in 1..Len(potion.base_fx) : potion.base_fx[k].name \in EffectNames(ingr)
        /\ \A n \in EffectNames(ingr) :
            Cardinality({k \in 1..Len(potion.base_fx) : potion.base_fx[k].name = n})
                = IF Cardinality(CarriersOf(ingr, n)) >= 2 THEN 1 ELSE 0

\* C2: every entry of the common list has the largest magnitude over all
\* sightings of its name in the input.
C2_MagnitudeIsMax ==
    Built =>
        \A k \in 1..Len(potion.base_fx) :
            potion.base_fx[k].magnitude =
                SetMax({s[3].magnitude : s \in SightingsOf(ingr, potion.base_fx[k].name)})

\* a common effect seen at least 3 times whose first sighting is strictly the
\* strongest one
C2_Witness ==
    /\ Built
    /\ \E k \in 1..Len(potion.base_fx) :
        LET S == SightingsOf(ingr, potion.base_fx[k].name)
        IN  /\ Cardinality(S) >= 3
            /\ \E f \in S : \A o \in S \ {f} :
                /\ f[1] < o[1] \/ (f[1] = o[1] /\ f[2] < o[2])
                /\ f[3].magnitude > o[3].magnitude

\* C3 (as claimed): every entry of the common list has the largest duration
\* over all sightings of its name in the input.
C3_DurationIsMax ==
    Built =>
        \A k \in 1..Len(potion.base_fx) :
            potion.base_fx[k].duration =
                SetMax({s[3].duration : s \in SightingsOf(ingr, potion.base_fx[k].name)})

\* C4: construction throws (with a message, leaving no effect list) exactly
\* when the list has fewer than 2 or more than 4 ingredients.
C4_ThrowsIffBadSize ==
    potion.state # "none" =>
        /\ potion.state = "threw" <=> (Len(ingr) < 2 \/ Len(ingr) > 4)
        /\ potion.state = "built" <=> Len(ingr) \in 2..4
        /\ potion.state = "threw" =>
            /\ potion.what # ""
            /\ potion.base_fx = <<>>
            /\ potion.fx = <<>>

\* a construction from more than 4 ingredients that threw
C4_Witness ==
    /\ potion.state = "threw"
    /\ Len(ingr) > 4

\* C5: the final effects have the length and order of the base effects, the
\* same names and durations, and the magnitude f(base magnitude).
C5_ScaleKeepsNameAndDuration ==
    Built =>
        /\ Len(potion.fx) = Len(potion.base_fx)
        /\ \A k \in 1..Len(potion.base_fx) :
            /\ potion.fx[k].name = potion.base_fx[k].name
            /\ potion.fx[k].duration = potion.base_fx[k].duration
            /\ potion.fx[k].magnitude = potion.gs.mult * potion.base_fx[k].magnitude + potion.gs.add

\* a potion of at least 2 effects scaled by f(x) = 2x, with an effect whose
\* magnitude changes and whose duration differs from its magnitude
C5_Witness ==
    /\ Built
    /\ Len(potion.base_fx) >= 2
    /\ potion.gs = [mult |-> 2, add |-> 0]
    /\ \E k \in 1..Len(potion.base_fx) :
        /\ potion.fx[k].magnitude # potion.base_fx[k].magnitude
        /\ potion.base_fx[k].duration # potion.base_fx[k].magnitude

----------------------------------------------------------------------------
(* Registry: properties *)

Keys(list) == [i \in 1..Len(list) |-> list[i].name]

\* position of the first element of list with the key n
FirstWithKey(list, n) ==
    CHOOSE i \in 1..Len(list) :
        /\ list[i].name = n
        /\ \A j \in 1..(i - 1) : list[j].name # n

\* the list has two ingredients of one key whose effects differ
HasConflictingDuplicates(list) ==
    \E a, b \in 1..Len(list) :
        a < b /\ list[a].name = list[b].name /\ list[a].effects # list[b].effects

Orderings(n) == {p \in [1..n -> 1..n] : \A a, b \in 1..n : p[a] = p[b] => a = b}

Permute(list, p) == [i \in 1..Len(list) |-> list[p[i]]]

\* hits enumerates the set of positions S once each, in ascending order
\* the registry has been constructed from ingr and not been assigned since
Constructed == registry.built /\ registry.from = "IngrList" /\ query.op = "none"

EnumeratesAscending(hits, S) ==
    /\ Len(hits) = Cardinality(S)
    /\ Range(hits) = S
    /\ \A a, b \in 1..Len(hits) : a < b => hits[a] < hits[b]

\* C6: the constructed registry is strictly ascending by name, holds no two
\* entries of one key, and holds every key of the input list.
C6_RegistryStrictlyAscending ==
    Constructed =>
        /\ \A a, b \in 1..Len(registry.list) :
                a < b => StrLess(registry.list[a].name, registry.list[b].name)
        /\ \A a, b \in 1..Len(registry.list) :
                registry.list[a].name = registry.list[b].name => a = b
        /\ \A k \in 1..Len(ingr) :
                \E a \in 1..Len(registry.list) : registry.list[a].name = ingr[k].name

\* a registry built from an unsorted list of 3 ingredients, 2 of one key
C6_Witness ==
    /\ Constructed
    /\ Len(ingr) = 3
    /\ Len(registry.list) = 2
    /\ \E k \in 1..2 : StrLess(ingr[k + 1].name, ingr[k].name)

\* C7: inserting an ingredient whose key is stored leaves the collection as
\* it was and adds one to the duplicate count; of the ingredients of one key
\* the registry holds exactly the earliest of the input.
C7_DuplicateLeavesEntryUntouched ==
    Constructed =>
        /\ \A k \in 1..Len(ingr) :
            LET before == sort(SubSeq(ingr, 1, k - 1))
                after  == sort(SubSeq(ingr, 1, k))
            IN  (\E a \in 1..Len(before.first) : before.first[a].name = ingr[k].name)
                    => /\ after.first = before.first
                       /\ after.second = before.second + 1
        /\ \A a, b \in 1..Len(ingr) :
            (a < b /\ ingr[a].name = ingr[b].name)
                => /\ registry.count >= 1
                   /\ Cardinality({c \in 1..Len(registry.list) :
                                    registry.list[c].name = ingr[a].name}) = 1
                   /\ \E c \in 1..Len(registry.list) :
                        registry.list[c] = ingr[FirstWithKey(ingr, ingr[a].name)]

\* a registry built from a list in which a later ingredient repeats the key
\* of an earlier one with other effects
C7_Witness ==
    /\ Constructed
    /\ HasConflictingDuplicates(ingr)
    /\ registry.count >= 1

\* C8 (as claimed): every permutation of the input list yields the identical
\* collection and the identical duplicate count.
C8_PermutationGivesIdenticalRegistry ==
    Constructed =>
        \A p \in Orderings(Len(ingr)) :
            sort(Permute(ingr, p)) = [first |-> registry.list, second |-> registry.count]

\* C8 (amended): every permutation of the input list yields the same keys in
\* the same order and the same duplicate count; the entry stored for a key is
\* the first ingredient of that key in the order supplied, so the collections
\* are identical when all ingredients of one key are equal.
C8_PermutationGivesSameKeysAndCount ==
    Constructed =>
        \A p \in Orderings(Len(ingr)) :
            LET perm == Permute(ingr, p)
                r == sort(perm)
            IN  /\ Keys(r.first) = Keys(registry.list)
                /\ r.second = registry.count
                /\ \A a \in 1..Len(r.first) :
                        r.first[a] = perm[FirstWithKey(perm, r.first[a].name)]
                /\ ~HasConflictingDuplicates(ingr) => r.first = registry.list

\* a registry of 2 keys built from an unsorted list of 3 ingredients, two of
\* them of one key with different effects
C8_Witness ==
    /\ Constructed
    /\ Len(ingr) = 3
    /\ Len(registry.list) = 2
    /\ HasConflictingDuplicates(ingr)
    /\ StrLess(ingr[3].name, ingr[1].name)

\* the matching rule of get as claimed: by exact name, or by an effect whose
\* lower-cased name satisfies the predicate against the lower-cased name
ClaimedGetMatches(i, name, only_effects, flag_exact) ==
    IF only_effects
    THEN \E j \in 1..NumSlots :
            match(flag_exact, tolower(i.effects[j].name), tolower(name))
    ELSE i.name = name

\* C9 (as claimed): get returns the first matching position at or after the
\* start, or the end sentinel; calling it again from the position after each
\* hit visits every matching entry exactly once, in registry order.
C9_GetEnumeratesMatches ==
    query.op = "get" =>
        LET M == {p \in 1..Len(registry.list) :
                    ClaimedGetMatches(registry.list[p], query.name,
                                      query.only_effects, query.flag_exact)}
            from == {p \in M : p >= query.off}
        IN  /\ query.it = IF from = {} THEN Len(registry.list) + 1 ELSE
                            CHOOSE p \in from : \A q \in from : p <= q
            /\ query.done => EnumeratesAscending(query.hits, {p \in M : p >= query.start})

\* C10: find returns exactly the entries that satisfy the condition of the
\* scope, in registry order; the BOTH result is the union of the INGR and the
\* EFFECT results.
C10_FindSelectsScopeInOrder ==
    query.op = "find" =>
        LET lname == tolower(query.name)
            byName(e) == match(query.flag_exact, tolower(e.name), lname)
            byEffect(e) == \E j \in 1..NumSlots :
                                match(query.flag_exact, tolower(e.effects[j].name), lname)
            wanted(e) == CASE query.search = "INGR"   -> byName(e)
                           [] query.search = "EFFECT" -> byEffect(e)
                           [] query.search = "BOTH"   -> byName(e) \/ byEffect(e)
        IN  /\ query.result = SelectSeq(registry.list, wanted)
            /\ query.search = "BOTH" =>
                Range(query.result) =
                    Range(find(registry.list, query.name, query.flag_exact, "INGR"))
                    \cup Range(find(registry.list, query.name, query.flag_exact, "EFFECT"))

\* a BOTH search for a name with an upper-case letter that returns one entry
\* selected by its name only and one selected by an effect only, and leaves
\* out an entry of the registry
C10_Witness ==
    /\ query.op = "find"
    /\ query.search = "BOTH"
    /\ tolower(query.name) # query.name
    /\ Len(query.result) < Len(registry.list)
    /\ \E e \in Range(query.result) :
        e \notin Range(find(registry.list, query.name, query.flag_exact, "INGR"))
    /\ \E e \in Range(query.result) :
        e \notin Range(find(registry.list, query.name, query.flag_exact, "EFFECT"))

----------------------------------------------------------------------------
(* find_best_fit: properties *)

\* t occurs somewhere within s
Occurs(t, s) == \E p \in 0..(Len(s) - Len(t)) : substr(s, p, Len(t)) = t

SetMin(S) == CHOOSE x \in S : \A y \in S : x <= y

BestFit == query.op = "find_best_fit"

\* positions of the entries whose lower-cased name equals the query
NameEquals == {p \in 1..Len(registry.list) : tolower(registry.list[p].name) = query.name}

\* positions of the entries one of whose lower-cased effect names equals the query
EffectEquals ==
    {p \in 1..Len(registry.list) :
        \E j \in 1..NumSlots : tolower(registry.list[p].effects[j].name) = query.name}

\* positions of the entries whose lower-cased name contains the query
NameContains ==
    {p \in 1..Len(registry.list) : Occurs(query.name, tolower(registry.list[p].name))}

\* positions of the entries one of whose lower-cased effect names contains the query
EffectContains ==
    {p \in 1..Len(registry.list) :
        \E j \in 1..NumSlots : Occurs(query.name, tolower(registry.list[p].effects[j].name))}

\* positions of the entries that qualify in the scope of the query
Qualifying ==
    CASE query.search = "INGR"   -> NameContains
      [] query.search = "EFFECT" -> EffectContains
      [] query.search = "BOTH"   -> NameContains \cup EffectContains

\* C11 (as claimed): in the scopes INGR and BOTH, when the lower-cased name of
\* some entry equals the query, find_best_fit returns the first such entry,
\* whatever the names and effect names of the entries before it.
C11_ExactNameWins ==
    (BestFit /\ query.search \in {"INGR", "BOTH"} /\ NameEquals # {})
        => query.it = SetMin(NameEquals)

\* C12: find_best_fit returns the end sentinel exactly when no entry
\* qualifies in the scope; it returns a position or the sentinel for every
\* registry and query.
C12_SentinelIffNothingQualifies ==
    BestFit =>
        /\ query.it \in 1..(Len(registry.list) + 1)
        /\ query.it = Len(registry.list) + 1 <=> Qualifying = {}

\* the sentinel returned for a non-empty query on a registry of 2 entries,
\* in the scope BOTH
C12_Witness ==
    /\ BestFit
    /\ query.search = "BOTH"
    /\ query.name # <<>>
    /\ Len(registry.list) >= 2
    /\ query.it = Len(registry.list) + 1

\* C13: when no entry's lower-cased key equals the query, find_best_fit
\* returns the first qualifying entry in registry order, the one with the
\* smallest key among the entries that contain the query in the scoped fields
C13_FirstCandidateInOrder ==
    (BestFit /\ NameEquals = {} /\ Qualifying # {})
        => query.it = SetMin(Qualifying)

----------------------------------------------------------------------------
(* match: properties *)

Matched == render.op = "match"

\* C14: with the exact flag set, match(candidate, term) is true iff candidate
\* and term are the same string; a proper substring, a superstring or an
\* empty term never matches a different candidate
C14_ExactMatchIsEquality ==
    (Matched /\ fmt.flag_exact) =>
        (render.result <=> render.objName = render.searchName)

\* exact mode refused a term that occurs within a different, longer candidate
C14_Witness ==
    /\ Matched /\ fmt.flag_exact
    /\ render.searchName # <<>>
    /\ render.objName # render.searchName
    /\ Occurs(render.searchName, render.objName)
    /\ ~render.result

\* C15 as stated: with the exact flag clear, match(candidate, term) is true
\* iff term occurs within candidate when both are compared case-insensitively
C15_PartialMatchIgnoresCase ==
    (Matched /\ ~fmt.flag_exact) =>
        (render.result <=> Occurs(tolower(render.searchName), tolower(render.objName)))

\* C15 amended: with the exact flag clear, match(candidate, term) is true iff
\* term occurs within candidate, letter case included
C15_PartialMatchIsCaseSensitive ==
    (Matched /\ ~fmt.flag_exact) =>
        (render.result <=> Occurs(render.searchName, render.objName))

\* partial mode refused a term that differs from the candidate in case only
C15_Witness ==
    /\ Matched /\ ~fmt.flag_exact
    /\ render.objName # render.searchName
    /\ tolower(render.objName) = tolower(render.searchName)
    /\ ~render.result

----------------------------------------------------------------------------
(* split_name, get_tuple: properties *)

Splitting == render.op \in {"split_name", "get_tuple"}

\* 0-based position of the first occurrence of t within s
FirstOccurrence(t, s) ==
    SetMin({p \in 0..(Len(s) - Len(t)) : \A i \in 1..Len(t) : s[p + i] = t[i]})

\* name cut into the n characters from the 0-based position p, and what
\* precedes and follows them
CutAt(name, p, n) ==
    <<SubSeq(name, 1, p), SubSeq(name, p + 1, p + n), SubSeq(name, p + n + 1, Len(name))>>

\* the terms of the call that occur in the name when case is ignored
TermsFoundIgnoringCase ==
    IF render.supplied
    THEN {k \in 1..Len(render.terms) :
            Occurs(tolower(render.terms[k]), tolower(render.name))}
    ELSE {}

\* the terms of the call that occur, as given, in the lower-cased name
TermsFoundAsGiven ==
    {k \in 1..Len(render.terms) : Occurs(render.terms[k], tolower(render.name))}

\* the result splits the name at the first occurrence of the term t
SplitsAt(t) ==
    /\ render.result = CutAt(render.name, FirstOccurrence(t, tolower(render.name)), Len(t))
    /\ render.result[1] \o render.result[2] \o render.result[3] = render.name

\* C16 as stated: split_name / get_tuple take the first term, in the given
\* order, that occurs in name ignoring case and return (prefix, matched,
\* suffix) cut from name at its first occurrence; (name, "", "") if there is none
C16_SplitsAtFirstTermIgnoringCase ==
    Splitting =>
        /\ render.returns
        /\ IF TermsFoundIgnoringCase = {}
           THEN render.result = <<render.name, <<>>, <<>>>>
           ELSE SplitsAt(tolower(render.terms[SetMin(TermsFoundIgnoringCase)]))

\* the overloads that return: split_name of a list of terms does as C16
\* states; get_tuple takes the first term that occurs, as given, in the
\* lower-cased name, and finds no term that holds an upper-case letter
C16_GetTupleNeedsLowercaseTerms ==
    /\ (render.op = "split_name" /\ render.returns) =>
        IF TermsFoundIgnoringCase = {}
        THEN render.result = <<render.name, <<>>, <<>>>>
        ELSE SplitsAt(tolower(render.terms[SetMin(TermsFoundIgnoringCase)]))
    /\ render.op = "get_tuple" =>
        IF TermsFoundAsGiven = {}
        THEN render.result = <<render.name, <<>>, <<>>>>
        ELSE SplitsAt(render.terms[SetMin(TermsFoundAsGiven)])

\* get_tuple passed over a first term that occurs in the name ignoring case
\* only, and split the name at the second term, behind a non-empty prefix
C16_Witness ==
    /\ render.op = "get_tuple"
    /\ Len(render.terms) = 2
    /\ 1 \in TermsFoundIgnoringCase
    /\ TermsFoundAsGiven = {2}
    /\ render.result[1] # <<>>
    /\ render.result[2] = render.terms[2]

----------------------------------------------------------------------------
(* get_fx, vectorize_effects: properties *)

Filtering == render.op \in {"get_fx", "vectorize_effects"}

\* the slots whose lower-cased name matches at least one search term: equal
\* to it in exact mode, holding it in partial mode
MatchingSlots ==
    {j \in 1..NumSlots :
        \E k \in 1..Len(render.terms) :
            IF fmt.flag_exact
            THEN tolower(render.effects[j].name) = render.terms[k]
            ELSE Occurs(render.terms[k], tolower(render.effects[j].name))}

\* the slots of S in slot order, from slot j on
RECURSIVE SlotsInOrder(_, _)
SlotsInOrder(S, j) ==
    IF j > NumSlots THEN <<>>
    ELSE IF j \in S THEN <<render.effects[j]>> \o SlotsInOrder(S, j + 1)
    ELSE SlotsInOrder(S, j + 1)

\* C17 as stated: with quiet off the result is all 4 slots in slot order; with
\* quiet on it is exactly the matching slots in slot order, empty when no
\* slot matches or no term is supplied
C17_FilterKeepsEveryMatchingSlot ==
    Filtering =>
        IF ~fmt.flag_quiet
        THEN render.result = render.effects
        ELSE render.result = SlotsInOrder(MatchingSlots, 1)

\* C17 amended: as stated, except that get_fx with quiet and exact set keeps
\* the first matching slot only
C17_GetFxStopsAfterFirstExactMatch ==
    Filtering =>
        IF ~fmt.flag_quiet
        THEN render.result = render.effects
        ELSE IF render.op = "get_fx" /\ fmt.flag_exact /\ MatchingSlots # {}
             THEN render.result = <<render.effects[SetMin(MatchingSlots)]>>
             ELSE render.result = SlotsInOrder(MatchingSlots, 1)

\* get_fx, quiet and exact, kept one slot of several matching ones
C17_Witness ==
    /\ render.op = "get_fx"
    /\ fmt.flag_quiet /\ fmt.flag_exact
    /\ Cardinality(MatchingSlots) >= 2
    /\ Len(render.result) = 1

\* C18: with quiet and exact set, filtering emits at most one effect, the
\* first slot whose name matches a search term, in every filtering routine
C18_ExactQuietEmitsFirstMatchOnly ==
    (Filtering /\ fmt.flag_quiet /\ fmt.flag_exact) =>
        /\ Len(render.result) <= 1
        /\ MatchingSlots # {} => render.result = <<render.effects[SetMin(MatchingSlots)]>>

----------------------------------------------------------------------------
(* getEffectColorizer, resolveEffectColor: properties *)

Coloring == render.op \in {"getEffectColorizer", "resolveEffectColor"}

\* C19: with the color flag disabled, color resolution returns the default
\* effect-name color for every effect, whatever its keywords and name
C19_NoColorGivesDefault ==
    (Coloring /\ ~fmt.flag_color) => render.result = EFFECT_NAME_DEFAULT

\* the name-substring classification of the rendered effect
FallbackClass ==
    LET name == tolower(render.effect.name)
    IN  IF \E t \in FallbackNegative : Occurs(t, name) THEN EFFECT_NAME_NEGATIVE
        ELSE IF \E t \in FallbackPositive : Occurs(t, name) THEN EFFECT_NAME_POSITIVE
        ELSE EFFECT_NAME_NEUTRAL

\* C20: with the color flag enabled, resolution is keyword-first: a negative
\* marker gives negative, else a positive marker gives positive, else a
\* non-empty keyword set without magic-influence gives neutral, and only
\* otherwise the name-substring fallback classifies the effect
C20_KeywordsFirstThenFallback ==
    (Coloring /\ fmt.flag_color) =>
        LET kw == render.effect.keywords
        IN  render.result =
                IF KYWD_Negative \in kw THEN EFFECT_NAME_NEGATIVE
                ELSE IF KYWD_Positive \in kw THEN EFFECT_NAME_POSITIVE
                ELSE IF kw # {} /\ KYWD_MagicInfluence \notin kw THEN EFFECT_NAME_NEUTRAL
                ELSE FallbackClass

----------------------------------------------------------------------------
(* Rendering of collections and export: properties *)

ListRendered == render.op \in {"to_fstream_list", "to_stream_list", "list_to_stream"}

\* the collection read from its last element to its first
Backwards(list) == [i \in 1..Len(list) |-> list[Len(list) - i + 1]]

\* C21: rendering an ordered ingredient collection emits every element exactly
\* once and nothing else, in the order of the collection when the reverse flag
\* is clear and in the reverse of that order when it is set, in the list
\* renderer as well as in the export renderers
C21_EmitsCollectionInFlagOrder ==
    ListRendered =>
        /\ ~render.crashed
        /\ ~render.failed
        /\ render.thrown = "none"
        /\ render.emitted = IF fmt.flag_reverse THEN Backwards(render.list) ELSE render.list

\* an ingredient was written in the registry format
Exported ==
    \/ render.op = "to_fstream"
    \/ render.op = "ToStream" /\ fmt.flag_export

\* number of lines of the given kind
RECURSIVE CountLines(_, _)
CountLines(lines, kind) ==
    IF lines = <<>> THEN 0
    ELSE (IF Head(lines).line = kind THEN 1 ELSE 0) + CountLines(Tail(lines), kind)

\* C22: exporting one ingredient emits a well-formed block (name line, opening
\* brace, 4 effect sub-blocks in slot order, closing brace) with balanced
\* braces, and reading the block back yields an ingredient with the same name
\* and the same 4 effect slots
C22_ExportRoundTrips ==
    Exported =>
        /\ CountLines(render.lines, "{") = CountLines(render.lines, "}")
        /\ ReadIngredient(render.lines).ok
        /\ ReadIngredient(render.lines).ingredient = render.ingredient

----------------------------------------------------------------------------
(* Program entry: properties *)

Exited == run.pc = "exit"

\* the arguments select one of the modes stdin-build, list, build, search,
\* smart search
SelectsMode == run.args.i \/ run.args.l \/ run.args.b \/ run.args.s \/ run.args.S

\* C23: the exit code is 1 when the arguments select no valid mode, 0 after a
\* mode ran successfully, -1 when a std::exception escaped and -2 for any
\* other exception
C23_ExitCodes ==
    Exited =>
        run.code = CASE run.thrown = "std::exception" -> -1
                     [] run.thrown = "other"          -> -2
                     [] OTHER -> IF SelectsMode THEN 0 ELSE 1

----------------------------------------------------------------------------
(* Potion aggregator: promotion and order *)

\* sighting a comes before sighting b in the walk over ingredients and slots
Earlier(a, b) == a[1] < b[1] \/ (a[1] = b[1] /\ a[2] < b[2])

\* the walk of get_common_effects over ingredients and slots
Walk(list) ==
    [p \in 1..(Len(list) * NumSlots) |->
        <<((p - 1) \div NumSlots) + 1, ((p - 1) % NumSlots) + 1,
          list[((p - 1) \div NumSlots) + 1].effects[((p - 1) % NumSlots) + 1]>>]

\* the sightings of the effect name n, in walk order
SightingsInOrder(list, n) == SelectSeq(Walk(list), LAMBDA s : s[3].name = n)

\* the k-th sighting of the effect name n, in walk order
NthSighting(list, n, k) == SightingsInOrder(list, n)[k]

\* the durations the promoted entry may start with, given its sightings in
\* walk order: that of the sighting with the larger magnitude among the first
\* two (either, when they are equal)
PromotedDurations(seq) ==
    LET s1 == seq[1][3]
        s2 == seq[2][3]
    IN  IF s1.magnitude > s2.magnitude THEN {s1.duration}
        ELSE IF s2.magnitude > s1.magnitude THEN {s2.duration}
        ELSE {s1.duration, s2.duration}

\* the durations of the sightings after the second one
LaterDurations(seq) == {seq[i][3].duration : i \in 3..Len(seq)}

\* C24: the entry promoted on the second sighting gets the larger of the two
\* magnitudes and the duration of the sighting with the larger magnitude;
\* every later sighting raises magnitude and duration independently to the
\* running maximum
C24_PromotionTakesStrongerSighting ==
    Built =>
        \A k \in 1..Len(potion.base_fx) :
            LET e == potion.base_fx[k]
                seq == SightingsInOrder(ingr, e.name)
            IN  /\ e.magnitude = SetMax({seq[i][3].magnitude : i \in 1..Len(seq)})
                /\ \E pd \in PromotedDurations(seq) :
                    e.duration = SetMax({pd} \cup LaterDurations(seq))

\* an entry whose promotion took the shorter duration of the stronger of two
\* unequal sightings, and whose duration a third sighting raised afterwards
C24_Witness ==
    /\ Built
    /\ \E k \in 1..Len(potion.base_fx) :
        LET e == potion.base_fx[k]
            seq == SightingsInOrder(ingr, e.name)
        IN  /\ Len(seq) >= 3
            /\ seq[1][3].magnitude # seq[2][3].magnitude
            /\ \A pd \in PromotedDurations(seq) :
                /\ pd < SetMax({seq[1][3].duration, seq[2][3].duration})
                /\ e.duration > pd

\* C25: the entries of the common list are in first-confirmation order: X
\* precedes Y iff the second sighting of X comes before the second sighting
\* of Y in the walk; later sightings reorder nothing.  Second sightings of
\* different names are different steps of the walk, so the order is total
\* and it is enough that each entry was confirmed before its successor
C25_FirstConfirmationOrder ==
    Built =>
        \A k \in 1..(Len(potion.base_fx) - 1) :
            Earlier(NthSighting(ingr, potion.base_fx[k].name, 2),
                    NthSighting(ingr, potion.base_fx[k + 1].name, 2))

\* two entries in an order that is not the alphabetical one, the first of
\* which was seen again after the second was confirmed
C25_Witness ==
    /\ Built
    /\ Len(potion.base_fx) >= 2
    /\ StrLess(potion.base_fx[2].name, potion.base_fx[1].name)
    /\ \E s \in SightingsOf(ingr, potion.base_fx[1].name) :
        Earlier(NthSighting(ingr, potion.base_fx[2].name, 2), s)

\* the (name, magnitude, duration) triples of an effect list
Triples(fx) == {<<fx[k].name, fx[k].magnitude, fx[k].duration>> : k \in 1..Len(fx)}

\* C27: for a fixed set of 2 to 4 ingredients the set of (name, magnitude,
\* duration) triples returned by get_common_effects is the same for every
\* order in which the ingredients are supplied
C27_CommonEffectsIgnoreOrder ==
    Built =>
        \A p \in Orderings(Len(ingr)) :
            Triples(get_common_effects(Permute(ingr, p)).value) = Triples(potion.base_fx)

----------------------------------------------------------------------------
(* Registry: duplicate count, best fit against find *)

\* C26: registry construction returns a duplicate count equal to the input
\* length minus the size of the resulting collection: every input ingredient
\* is either stored or counted as a duplicate, never both and never neither
C26_CountIsInputMinusStored ==
    Constructed => registry.count = Len(ingr) - Len(registry.list)

\* a construction that stored several entries and counted several duplicates
C26_Witness ==
    /\ Constructed
    /\ Len(registry.list) >= 2
    /\ registry.count >= 1
    /\ registry.count = Len(ingr) - Len(registry.list)

\* C28: for every query and scope find_best_fit agrees with find under the
\* partial predicate: it returns an entry iff that find result is non-empty,
\* and the entry is a member of the result, also for queries that hold
\* upper-case letters
C28_BestFitAgreesWithFind ==
    BestFit =>
        LET found == find(registry.list, query.name, FALSE, query.search)
        IN  /\ query.it <= Len(registry.list) <=> found # <<>>
            /\ query.it <= Len(registry.list) => registry.list[query.it] \in Range(found)

====
